---------------------------- MODULE Spec2Model ----------------------------
(***************************************************************************)
(* A model of rp3-tcx.py: the conversion of an RP3 rower CSV workout file  *)
(* to a Garmin TCX document.  One run of the script is one behaviour: the  *)
(* main block derives the output name, constructs the Workout (which reads *)
(* the whole CSV file: header check, then one Stroke per row, segmented    *)
(* into Intervals), opens the output and writes the document.              *)
(*                                                                         *)
(* A CSV cell is a record [kind, val]: kind "int" is a cell written as an  *)
(* integer literal ("2"), "dec" one written with a decimal point ("2.0"),  *)
(* "text" one that is no number ("x").  float() accepts "int" and "dec",   *)
(* int() accepts "int" only.  Header cells are column names (strings).     *)
(* Python's 0-based csvrow[k] is At(csvrow, k).                            *)
(***************************************************************************)
EXTENDS Integers, Sequences, FiniteSets, TLC

VARIABLES
    file,       \* the input file: [readable, hasHdr, hdr, rows]
    pc,         \* where the run is
    err,        \* the exception that ended the run ("" while none)
    oname,      \* the main block's oname
    startsec,   \* Workout.startsec
    intervals,  \* Workout.intervals
    pos,        \* data rows the csv reader has handed out and the loop body completed
    fp,         \* the input handle of readCSV: "none", "open", "closed"
    ofile,      \* the output sink: "none", "stdout", "open", "closed"
    written     \* what has been written to the sink (<<>>: nothing; <<doc>>)

vars == <<file, pc, err, oname, startsec, intervals, pos, fp, ofile, written>>

---------------------------------------------------------------------------
(* Bounds of the checked inputs *)

MaxRows == 3

MaxId == 2

---------------------------------------------------------------------------
(* CSV cells *)

IntCell(n) == [kind |-> "int", val |-> n]

DecCell(n) == [kind |-> "dec", val |-> n]

TextCell == [kind |-> "text", val |-> 0]

At(csvrow, k) == csvrow[k + 1]

FloatOK(c) == c.kind \in {"int", "dec"}

IntOK(c) == c.kind = "int"

---------------------------------------------------------------------------
(* Stroke *)

\* 500 / pace in whole metres per second (the inputs' paces divide 500)
paceToSpeed(pace) == IF pace > 0 THEN 500 \div pace ELSE 0

\* kJ / 4.184, truncated by the int() around its one use (non-negative kJ)
kJToCaloriesInt(kJ) == (kJ * 1000) \div 4184

UsedCols == {7, 11, 9, 4, 14, 6, 13, 1}

\* Stroke.__init__ raises (IndexError or ValueError) unless this holds
StrokeOK(csvrow) ==
    /\ \A k \in UsedCols : k < Len(csvrow)
    /\ FloatOK(At(csvrow, 7))
    /\ FloatOK(At(csvrow, 11))
    /\ FloatOK(At(csvrow, 9))
    /\ FloatOK(At(csvrow, 4))
    /\ IntOK(At(csvrow, 14))
    /\ FloatOK(At(csvrow, 6))
    /\ FloatOK(At(csvrow, 13))
    /\ IntOK(At(csvrow, 1))

Stroke(csvrow) ==
    [secs        |-> At(csvrow, 7).val,
     speed       |-> paceToSpeed(At(csvrow, 11).val),
     dist        |-> At(csvrow, 9).val,
     power       |-> At(csvrow, 4).val,
     heart       |-> At(csvrow, 14).val,
     cadence     |-> At(csvrow, 6).val,
     calories    |-> kJToCaloriesInt(At(csvrow, 13).val),
     interval_id |-> At(csvrow, 1).val]

ExpectedHdr ==
    << "id", "workout_interval_id", "ref", "stroke_number", "power",
       "avg_power", "stroke_rate", "time", "stroke_length", "distance",
       "distance_per_stroke", "estimated_500m_time", "energy_per_stroke",
       "energy_sum", "pulse", "work_per_pulse", "peak_force",
       "peak_force_pos", "rel_peak_force_pos", "drive_time", "recover_time",
       "k", "curve_data", "stroke_number_in_interval",
       "avg_calculated_power" >>

ExpectedCols == 25

\* Variants of parseStrokeHdr that check less than the code does
parseStrokeHdrLenOnly(csvrow) == Len(csvrow) = ExpectedCols

parseStrokeHdrAnyNames(csvrow) == TRUE

\* parseStrokeHdr returns normally (it raises otherwise)
parseStrokeHdr(csvrow) ==
    /\ Len(csvrow) = ExpectedCols
    /\ ExpectedHdr = csvrow

---------------------------------------------------------------------------
(* Interval *)

Interval(ID, lap_startsec) ==
    [startsec    |-> lap_startsec,
     endsec      |-> lap_startsec,
     maxSpeed    |-> 0,
     maxHeart    |-> 0,
     maxCadence  |-> 0,
     maxWatts    |-> 0,
     ttlDist     |-> 0,
     interval_id |-> ID,
     points      |-> << >>]

collectStats(iv, p) ==
    [iv EXCEPT !.endsec     = iv.startsec + p.secs,
               !.maxSpeed   = IF p.speed > @ THEN p.speed ELSE @,
               !.maxHeart   = IF p.heart > @ THEN p.heart ELSE @,
               !.maxCadence = IF p.cadence > @ THEN p.cadence ELSE @,
               !.maxWatts   = IF p.power > @ THEN p.power ELSE @]

\* Variants of addStroke: the end offset not made relative to the start; the
\* sample not kept
addStrokeEndIsSecs(iv, p) ==
    [collectStats([iv EXCEPT !.points = Append(@, p)], p) EXCEPT !.endsec = p.secs]

addStrokeNoAppend(iv, p) == collectStats(iv, p)

addStroke(iv, p) == collectStats([iv EXCEPT !.points = Append(@, p)], p)

---------------------------------------------------------------------------
(* Workout.readCSV: one pass of the loop body over an already built Stroke *)

\* Variants of the boundary test: any change of identifier; not strict
NewIntervalNeededOnChange(ID, current_ID) == ID # current_ID

NewIntervalNeededOrEqual(ID, current_ID) == ID >= current_ID

NewIntervalNeeded(ID, current_ID) == ID > current_ID

CurrentID(ivs) == IF ivs # << >> THEN ivs[Len(ivs)].interval_id ELSE 0

EndTime(ivs, ssec) == IF ivs # << >> THEN ivs[Len(ivs)].endsec ELSE ssec

\* [ok, intervals]: ok is FALSE when interval is still None at
\* interval.addStroke(p), which raises AttributeError
loopBody(ivs, ssec, p) ==
    LET ID == p.interval_id
    IN  IF NewIntervalNeeded(ID, CurrentID(ivs))
        THEN [ok |-> TRUE,
              intervals |-> Append(ivs, addStroke(Interval(ID, EndTime(ivs, ssec)), p))]
        ELSE IF ivs # << >>
             THEN [ok |-> TRUE,
                   intervals |-> [ivs EXCEPT ![Len(ivs)] = addStroke(@, p)]]
             ELSE [ok |-> FALSE, intervals |-> ivs]

---------------------------------------------------------------------------
(* The document.  An element is [tag, text, kids]; Str(v) is str(v).       *)

Elem(tag, text, kids) == [tag |-> tag, text |-> text, kids |-> kids]

Str(v) == [str |-> v]

NoText == [str |-> ""]

isoTimestamp(seconds) == [strftime |-> "%Y-%m-%dT%H:%M:%S.000Z", gmtime |-> seconds]

trackpointElement(p, start) ==
    Elem("Trackpoint", NoText,
         << Elem("Time", isoTimestamp(start + p.secs), << >>),
            Elem("DistanceMeters", Str(p.dist), << >>),
            Elem("HeartRateBpm", NoText, << Elem("Value", Str(p.heart), << >>) >>),
            Elem("Cadence", Str(p.cadence), << >>),
            Elem("Extensions", NoText,
                 << Elem("TPX", NoText, << Elem("Watts", Str(p.power), << >>) >>) >>) >>)

trackElement(iv) ==
    Elem("Track", NoText,
         [i \in 1..Len(iv.points) |-> trackpointElement(iv.points[i], iv.startsec)])

\* addLap reads self.points[len(self.points) - 1]: defined when points is not empty
LapOK(iv) == iv.points # << >>

addLap(iv) ==
    LET last == iv.points[Len(iv.points)]
    IN  Elem("Lap", isoTimestamp(iv.startsec),
             << Elem("TotalTimeSeconds", Str(last.secs), << >>),
                Elem("DistanceMeters", Str(last.dist), << >>),
                Elem("MaximumSpeed", Str(iv.maxSpeed), << >>),
                Elem("Calories", Str(last.calories), << >>),
                Elem("MaximumHeartRateBpm", NoText,
                     << Elem("Value", Str(iv.maxHeart), << >>) >>),
                Elem("Intensity", Str("Active"), << >>),
                Elem("TriggerMethod", Str("Manual"), << >>),
                trackElement(iv) >>)

addCreator == Elem("Creator", NoText,
                   << Elem("Name", Str("RP3 Dynamic Rower"), << >>),
                      Elem("UnitId", Str("0"), << >>),
                      Elem("ProductID", Str("0"), << >>),
                      Elem("Version", NoText, << >>) >>)

\* Variant of addActivity: a placeholder Lap for a Workout without Intervals
addActivityLapWhenEmpty(ivs, ssec) ==
    Elem("Activity", Str("Rowing"),
         << Elem("Id", isoTimestamp(ssec), << >>) >>
         \o (IF ivs = << >>
             THEN << Elem("Lap", isoTimestamp(ssec), << >>) >>
             ELSE [i \in 1..Len(ivs) |-> addLap(ivs[i])])
         \o << addCreator >>)

addActivity(ivs, ssec) ==
    Elem("Activity", Str("Rowing"),
         << Elem("Id", isoTimestamp(ssec), << >>) >>
         \o [i \in 1..Len(ivs) |-> addLap(ivs[i])]
         \o << addCreator >>)

addAuthor == Elem("Author", NoText,
                  << Elem("Name", Str("RP3 CSV to TCX Convertor"), << >>),
                     Elem("Build", NoText, << >>),
                     Elem("LangID", Str("en"), << >>),
                     Elem("PartNumber", Str("none"), << >>) >>)

trainingCenterDB(ivs, ssec) ==
    Elem("TrainingCenterDatabase", NoText,
         << Elem("Activities", NoText, << addActivity(ivs, ssec) >>),
            addAuthor >>)

---------------------------------------------------------------------------
(* The inputs of a run: the CSV file and the command line *)

IdCells == {IntCell(i) : i \in 0..MaxId} \cup {TextCell}

\* the time and distance cells of a row: every sequence of times and every
\* sequence of distances over {1, 2} occurs in some file
Samples == {[secs |-> 1, dist |-> 1], [secs |-> 2, dist |-> 2], [secs |-> 2, dist |-> 1]}

\* a data row of the 25-column layout
ExtRow(idc, secs, dist) ==
    [k \in 1..Len(ExpectedHdr) |->
        CASE k = 2  -> idc
          [] k = 5  -> IntCell(3)
          [] k = 7  -> DecCell(2)
          [] k = 8  -> IntCell(secs)
          [] k = 10 -> IntCell(dist)
          [] k = 12 -> IntCell(5)
          [] k = 14 -> IntCell(9)
          [] k = 15 -> IntCell(4)
          [] k = 23 -> TextCell
          [] OTHER  -> IntCell(0)]

LegacyHdr ==
    << "Number", "Time (seconds)", "Distance (meters)", "Pace (seconds)",
       "Watts", "Cal/Hr", "Stroke Rate", "Heart Rate" >>

\* a data row of the 8-column layout
LegacyRow(secs, dist) ==
    [k \in 1..Len(LegacyHdr) |->
        CASE k = 2  -> IntCell(secs)
          [] k = 3  -> IntCell(dist)
          [] k = 4  -> IntCell(5)
          [] OTHER  -> IntCell(0)]

ExtRows == {ExtRow(idc, m.secs, m.dist) : idc \in IdCells, m \in Samples}

LegacyRows == {LegacyRow(m.secs, m.dist) : m \in Samples}

\* rows under a header the code rejects
PlainRows == {ExtRow(idc, 1, 1) : idc \in IdCells}

SeqsUpTo(S, n) == UNION {[1..k -> S] : k \in 0..n}

RenamedHdr == [ExpectedHdr EXCEPT ![8] = "Time"]

SwappedHdr == [ExpectedHdr EXCEPT ![1] = "workout_interval_id", ![2] = "id"]

ShortHdr == SubSeq(ExpectedHdr, 1, Len(ExpectedHdr) - 1)

File(readable, hasHdr, hdr, rows) ==
    [readable |-> readable, hasHdr |-> hasHdr, hdr |-> hdr, rows |-> rows]

Files ==
    {File(TRUE, TRUE, ExpectedHdr, r) : r \in SeqsUpTo(ExtRows, MaxRows)}
    \cup {File(TRUE, TRUE, h, r) : h \in {RenamedHdr, SwappedHdr, ShortHdr},
                                   r \in SeqsUpTo(PlainRows, MaxRows)}
    \cup {File(TRUE, TRUE, LegacyHdr, r) : r \in SeqsUpTo(LegacyRows, MaxRows)}
    \cup {File(TRUE, FALSE, << >>, << >>), File(FALSE, FALSE, << >>, << >>)}

StartTimes == {10}

\* f: the -f option ("" when absent); csv: the input name ends with .csv;
\* exists: the derived output name is that of an existing file
CommandLines ==
    {[f |-> "-", csv |-> TRUE, exists |-> FALSE],
     [f |-> "out.tcx", csv |-> TRUE, exists |-> FALSE],
     [f |-> "", csv |-> TRUE, exists |-> FALSE],
     [f |-> "", csv |-> TRUE, exists |-> TRUE],
     [f |-> "", csv |-> FALSE, exists |-> FALSE]}

---------------------------------------------------------------------------
(* The run *)

Init ==
    /\ file \in Files
    /\ pc = "main"
    /\ err = ""
    /\ oname = ""
    /\ startsec \in StartTimes
    /\ intervals = << >>
    /\ pos = 0
    /\ fp = "none"
    /\ ofile = "none"
    /\ written = << >>

Raise(e) ==
    /\ pc' = "error"
    /\ err' = e

\* output_name(iname): the name, or "" when it raises
output_name(cli) == IF cli.csv /\ ~cli.exists THEN "in.tcx" ELSE ""

\* the options are read, and oname = output_name(iname) when no -f was given
OutputName ==
    /\ pc = "main"
    /\ \E cli \in CommandLines :
          IF cli.f # ""
          THEN pc' = "construct" /\ oname' = cli.f /\ UNCHANGED err
          ELSE IF output_name(cli) # ""
               THEN pc' = "construct" /\ oname' = output_name(cli) /\ UNCHANGED err
               ELSE Raise("OutputName") /\ UNCHANGED oname
    /\ UNCHANGED <<file, startsec, intervals, pos, fp, ofile, written>>

\* Workout.__init__ up to the call of readCSV
WorkoutInit ==
    /\ pc = "construct"
    /\ intervals' = << >>
    /\ pc' = "open"
    /\ UNCHANGED <<file, err, oname, startsec, pos, fp, ofile, written>>

\* fp = open(file, 'rt'); rdr = csv.reader(fp)
OpenInput ==
    /\ pc = "open"
    /\ IF file.readable
       THEN pc' = "header" /\ fp' = "open" /\ UNCHANGED err
       ELSE Raise("IOError") /\ UNCHANGED fp
    /\ UNCHANGED <<file, oname, startsec, intervals, pos, ofile, written>>

\* Stroke.parseStrokeHdr(next(rdr))
ParseHeader ==
    /\ pc = "header"
    /\ IF ~file.hasHdr
       THEN Raise("StopIteration")
       ELSE IF parseStrokeHdr(file.hdr)
            THEN pc' = "rows" /\ UNCHANGED err
            ELSE Raise("UnexpectedHeader")
    /\ UNCHANGED <<file, oname, startsec, intervals, pos, fp, ofile, written>>

\* one pass of: for row in rdr
ReadRow ==
    /\ pc = "rows"
    /\ pos < Len(file.rows)
    /\ LET row == file.rows[pos + 1]
       IN  IF ~StrokeOK(row)
           THEN Raise("ValueError") /\ UNCHANGED <<intervals, pos>>
           ELSE LET r == loopBody(intervals, startsec, Stroke(row))
                IN  IF r.ok
                    THEN /\ intervals' = r.intervals
                         /\ pos' = pos + 1
                         /\ UNCHANGED <<pc, err>>
                    ELSE Raise("AttributeError") /\ UNCHANGED <<intervals, pos>>
    /\ UNCHANGED <<file, oname, startsec, fp, ofile, written>>

\* the reader is exhausted and readCSV returns.  fp is never closed by the
\* code: whether the handle is released when the local goes out of scope is
\* up to the interpreter's garbage collection.
EndOfRows ==
    /\ pc = "rows"
    /\ pos = Len(file.rows)
    /\ pc' = "openout"
    /\ fp' \in {"open", "closed"}
    /\ UNCHANGED <<file, err, oname, startsec, intervals, pos, ofile, written>>

\* Variant of the main block's order: the sink opened before Workout(...)
ReadyForOutputBeforeWorkout == pc \in {"construct", "openout"}

\* the main block reaches the choice of ofile once Workout(...) has returned
ReadyForOutput == pc = "openout"

OpenOutput ==
    /\ ReadyForOutput
    /\ ofile' = IF oname = "-" THEN "stdout" ELSE "open"
    /\ pc' = "write"
    /\ UNCHANGED <<file, err, oname, startsec, intervals, pos, fp, written>>

\* work.writeTCX(ofile)
WriteTCX ==
    /\ pc = "write"
    /\ IF \A i \in 1..Len(intervals) : LapOK(intervals[i])
       THEN /\ written' = << trainingCenterDB(intervals, startsec) >>
            /\ pc' = "close"
            /\ UNCHANGED err
       ELSE Raise("IndexError") /\ UNCHANGED written
    /\ UNCHANGED <<file, oname, startsec, intervals, pos, fp, ofile>>

CloseOutput ==
    /\ pc = "close"
    /\ ofile' = IF oname # "-" THEN "closed" ELSE ofile
    /\ pc' = "done"
    /\ UNCHANGED <<file, err, oname, startsec, intervals, pos, fp, written>>

Next ==
    \/ OutputName
    \/ WorkoutInit
    \/ OpenInput
    \/ ParseHeader
    \/ ReadRow
    \/ EndOfRows
    \/ OpenOutput
    \/ WriteTCX
    \/ CloseOutput

Spec == Init /\ [][Next]_vars

---------------------------------------------------------------------------
(* Vocabulary of the properties *)

ExtendedInput == file.readable /\ file.hasHdr /\ file.hdr = ExpectedHdr

LegacyInput == file.readable /\ file.hasHdr /\ file.hdr = LegacyHdr

ReadCSVReturned == pc \in {"openout", "write", "close", "done"}

\* the exceptions readCSV can end with
ReadCSVErrors == {"IOError", "StopIteration", "UnexpectedHeader", "ValueError", "AttributeError"}

ReadCSVRaised == pc = "error" /\ err \in ReadCSVErrors

\* the workout_interval_id cells of the first k data rows, as numbers
RowIds(k) == [i \in 1..k |-> At(file.rows[i], 1).val]

IntervalIds == [i \in 1..Len(intervals) |-> intervals[i].interval_id]

RECURSIVE RunningMaxima(_, _)
\* the members of ids greater than cur and than every earlier member
RunningMaxima(ids, cur) ==
    IF ids = << >> THEN << >>
    ELSE IF Head(ids) > cur
         THEN << Head(ids) >> \o RunningMaxima(Tail(ids), Head(ids))
         ELSE RunningMaxima(Tail(ids), cur)

RECURSIVE FirstSeen(_, _)
\* the distinct members of ids in the order of their first occurrence
FirstSeen(ids, seen) ==
    IF ids = << >> THEN << >>
    ELSE IF Head(ids) \in seen
         THEN FirstSeen(Tail(ids), seen)
         ELSE << Head(ids) >> \o FirstSeen(Tail(ids), seen \cup {Head(ids)})

NonDecreasing(ids) == \A i \in 1..(Len(ids) - 1) : ids[i] <= ids[i + 1]

RECURSIVE AllPoints(_)
\* the samples of the intervals, in order
AllPoints(ivs) ==
    IF ivs = << >> THEN << >> ELSE ivs[1].points \o AllPoints(Tail(ivs))

RECURSIVE IntervalIndexOf(_, _)
\* the index of the interval that holds the k-th sample of AllPoints(ivs)
IntervalIndexOf(ivs, k) ==
    IF k <= Len(ivs[1].points) THEN 1
    ELSE 1 + IntervalIndexOf(Tail(ivs), k - Len(ivs[1].points))

---------------------------------------------------------------------------
(* C1, as stated: for every extended-layout input, once readCSV has        *)
(* processed all rows the Intervals' identifiers are the distinct          *)
(* workout_interval_id values of the rows in first-seen order (and so      *)
(* their number is the number of distinct values).                         *)
C1_DistinctIdsFirstSeen ==
    (ExtendedInput /\ ReadCSVReturned)
        => IntervalIds = FirstSeen(RowIds(Len(file.rows)), {})

(* C1, amended: in every state the Intervals' identifiers are the          *)
(* identifiers of the processed rows that are strictly greater than 0 and  *)
(* than every earlier row's, in row order; readCSV returns only with all   *)
(* rows processed; and when the rows' identifiers never decrease these     *)
(* are the distinct values in first-seen order.                            *)
C1_IdsAreRunningMaxima ==
    ExtendedInput =>
        /\ IntervalIds = RunningMaxima(RowIds(pos), 0)
        /\ ReadCSVReturned => pos = Len(file.rows)
        /\ (ReadCSVReturned /\ NonDecreasing(RowIds(pos)))
              => IntervalIds = FirstSeen(RowIds(pos), {})

C1_Witness ==
    /\ ExtendedInput
    /\ ReadCSVReturned
    /\ pos = 3
    /\ RowIds(pos) = << 1, 2, 1 >>
    /\ IntervalIds = << 1, 2 >>

---------------------------------------------------------------------------
(* C2: when the header row is not exactly the expected column layout, the  *)
(* run fails at the header check: no data row is ever read or made a       *)
(* Stroke, the Workout holds zero Intervals, and readCSV ends with the     *)
(* header exception.                                                       *)
C2_HeaderMismatchFailsFirst ==
    (file.readable /\ file.hasHdr /\ file.hdr # ExpectedHdr) =>
        /\ pc \in {"main", "construct", "open", "header", "error"}
        /\ pos = 0
        /\ intervals = << >>
        /\ ReadCSVRaised => err = "UnexpectedHeader"

C2_Witness ==
    /\ file.hdr = RenamedHdr
    /\ Len(file.rows) = MaxRows
    /\ pc = "error"
    /\ err = "UnexpectedHeader"
    /\ pos = 0
    /\ intervals = << >>

---------------------------------------------------------------------------
(* C3: the output sink is opened and written only after the header has     *)
(* been validated and every data row parsed and segmented; when the header *)
(* check or a row's conversion fails, the sink is never opened or written. *)
C3_OutputOnlyAfterParsing ==
    /\ (ofile # "none" \/ written # << >>) =>
          /\ err = ""
          /\ file.hasHdr /\ file.hdr = ExpectedHdr
          /\ pos = Len(file.rows)
          /\ \A i \in 1..Len(file.rows) : StrokeOK(file.rows[i])
          /\ Len(AllPoints(intervals)) = Len(file.rows)
    /\ ReadCSVRaised => (ofile = "none" /\ written = << >>)

C3_Witness ==
    /\ ExtendedInput
    /\ pc = "error"
    /\ err = "ValueError"
    /\ pos = 2
    /\ ofile = "none"
    /\ written = << >>

---------------------------------------------------------------------------
(* C4: for a valid header and no data rows the conversion does not fail:   *)
(* readCSV ends with zero Intervals, and the document holds exactly one    *)
(* Activity whose children are its Id and its Creator, with no Lap.  (The  *)
(* one failure left is output_name's, before the conversion starts.)       *)
C4_HeaderOnly ==
    (ExtendedInput /\ file.rows = << >>) =>
        /\ pc = "error" => err = "OutputName"
        /\ ReadCSVReturned => intervals = << >>
        /\ written # << >> =>
              LET acts == written[1].kids[1]
              IN  /\ acts.tag = "Activities"
                  /\ Len(acts.kids) = 1
                  /\ acts.kids[1].tag = "Activity"
                  /\ [i \in 1..Len(acts.kids[1].kids) |-> acts.kids[1].kids[i].tag]
                        = << "Id", "Creator" >>

C4_Witness ==
    /\ ExtendedInput
    /\ file.rows = << >>
    /\ pc = "done"
    /\ written # << >>

---------------------------------------------------------------------------
\* the distance cells of the first k data rows of an 8-column file
LegacyDists(k) == [i \in 1..k |-> At(file.rows[i], 2).val]

\* the rows at which the distance is less than the previous row's
Resets(dists) == {i \in 2..Len(dists) : dists[i] < dists[i - 1]}

---------------------------------------------------------------------------
(* C6: for every input with at least one data row, handling the first data *)
(* row creates the first Interval, with identifier 1 and start offset the  *)
(* workout start time, and appends the first sample to it, whatever        *)
(* interval identifier the row carries.                                    *)
C6_FirstRowStartsIntervalOne ==
    (/\ ExtendedInput
     /\ file.rows # << >>
     /\ StrokeOK(file.rows[1])
     /\ (pos >= 1 \/ ReadCSVRaised)) =>
        /\ intervals # << >>
        /\ intervals[1].interval_id = 1
        /\ intervals[1].startsec = startsec
        /\ intervals[1].points # << >>
        /\ intervals[1].points[1] = Stroke(file.rows[1])

---------------------------------------------------------------------------
(* C7: a row processed while an Interval exists starts a new Interval if   *)
(* and only if its identifier is strictly greater than the last            *)
(* Interval's; the new Interval has the row's identifier, starts at the    *)
(* end offset the last Interval had, and holds the sample; otherwise the   *)
(* sample is appended to the last Interval.  In both cases the Intervals   *)
(* before the last are left as they were.                                  *)
C7_RowStep ==
    (pc = "rows" /\ pos' = pos + 1 /\ intervals # << >>) =>
        LET p    == Stroke(file.rows[pos + 1])
            n    == Len(intervals)
            last == intervals[n]
        IN  IF p.interval_id > last.interval_id
            THEN /\ Len(intervals') = n + 1
                 /\ SubSeq(intervals', 1, n) = intervals
                 /\ intervals'[n + 1].interval_id = p.interval_id
                 /\ intervals'[n + 1].startsec = last.endsec
                 /\ intervals'[n + 1].points = << p >>
            ELSE /\ Len(intervals') = n
                 /\ SubSeq(intervals', 1, n - 1) = SubSeq(intervals, 1, n - 1)
                 /\ intervals'[n].interval_id = last.interval_id
                 /\ intervals'[n].startsec = last.startsec
                 /\ intervals'[n].points = Append(last.points, p)

\* C7: every step of the run is such a row step or leaves a row unprocessed
C7_ExplicitIdSegmentation == [][C7_RowStep]_vars

C7_Witness ==
    /\ Len(intervals) = 2
    /\ pos = 3
    /\ Len(intervals[2].points) = 2
    /\ intervals[2].interval_id > intervals[1].interval_id
    /\ intervals[2].startsec = intervals[1].endsec
    /\ intervals[2].startsec > startsec

---------------------------------------------------------------------------
(* C8: in every state every non-empty Interval's end offset is its start   *)
(* offset plus the elapsed time of its last sample, and no step changes    *)
(* the start offset of an existing Interval.                               *)
C8_EndIsStartPlusLast ==
    \A i \in 1..Len(intervals) :
        LET iv == intervals[i]
        IN  iv.points # << >>
              => iv.endsec = iv.startsec + iv.points[Len(iv.points)].secs

C8_StartKept ==
    \A i \in 1..Len(intervals) :
        /\ i <= Len(intervals')
        /\ intervals'[i].startsec = intervals[i].startsec

\* C8: the end offset always is start + last elapsed time; starts are kept
C8_EndOffset == [](C8_EndIsStartPlusLast) /\ [][C8_StartKept]_vars

C8_Witness ==
    /\ Len(intervals) = 2
    /\ Len(intervals[2].points) = 2
    /\ intervals[2].points[1].secs = 2
    /\ intervals[2].points[2].secs = 1
    /\ intervals[2].startsec = startsec + 2
    /\ intervals[2].endsec = startsec + 3

---------------------------------------------------------------------------
(* C9: on every path out of readCSV (all rows consumed, header rejected,   *)
(* a row failing) the input handle has been released: in every state after *)
(* parsing has ended the handle is not open.                               *)
C9_InputHandleReleased ==
    (ReadCSVReturned \/ ReadCSVRaised) => fp # "open"

---------------------------------------------------------------------------
(* C10: every Interval of the Workout holds at least one sample, so that   *)
(* addLap's read of the last sample is defined, and every processed row is *)
(* a sample of some Interval: the Intervals' samples, in order, are the    *)
(* Strokes of the rows processed so far.                                   *)
C10_NoEmptyInterval ==
    /\ \A i \in 1..Len(intervals) : LapOK(intervals[i])
    /\ Len(AllPoints(intervals)) = pos
    /\ AllPoints(intervals) = [k \in 1..pos |-> Stroke(file.rows[k])]
    /\ err # "IndexError"

C10_Witness ==
    /\ pc = "done"
    /\ pos = 3
    /\ Len(intervals) = 2
    /\ Len(intervals[1].points) = 1
    /\ Len(intervals[2].points) = 2

============================================================================
